---- MODULE Spec2Model ----
(***************************************************************************)
(* PolyglotAI: the Conversation aggregate (core/domain/entities) and the   *)
(* use cases that orchestrate it (application/commands, queries) over the  *)
(* conversation repository, the chat provider and the time provider.       *)
(*                                                                         *)
(* SpecConversation : one Conversation object driven through its public    *)
(*                    operations with caller-chosen arguments.             *)
(* Spec             : asynchronous use-case executions over one shared     *)
(*                    repository; the steps are the code between awaits.   *)
(***************************************************************************)
EXTENDS Integers, Sequences, FiniteSets, TLC

\* ------------------------------------------------------------------------
\* Bounds of the model
\* ------------------------------------------------------------------------
MaxTime == 1
MaxMsgs == 2
NumTasks == 2
MaxExec == 2

\* ------------------------------------------------------------------------
\* Value objects
\* ------------------------------------------------------------------------
ACTIVE == "active"
ARCHIVED == "archived"
DELETED == "deleted"
Status == {ACTIVE, ARCHIVED, DELETED}

STUDENT == "student"
TEACHER == "teacher"
Role == {STUDENT, TEACHER}

is_active(status) == status = ACTIVE

\* is_writable refusing ARCHIVED only
is_writable_UnlessArchived(status) == status # ARCHIVED

is_writable(status) == is_active(status)

\* Error kinds (class names of core/exceptions)
OK == "ok"
ConversationNotWritableError == "ConversationNotWritableError"
InvalidChatMessageContentError == "InvalidChatMessageContentError"
EmptyConversationTitleError == "EmptyConversationTitleError"
ConversationTitleTooLongError == "ConversationTitleTooLongError"
InvalidLanguagePairError == "InvalidLanguagePairError"
ResourceNotFoundError == "ResourceNotFoundError"
TeacherResponseError == "TeacherResponseError"
PersistenceError == "PersistenceError"

\* the message of ResourceNotFoundError:
\* f"{resource_type} not found with ID: {resource_id}"
ResourceNotFoundMessage(resource_type, resource_id) ==
    <<resource_type, " not found with ID: ", resource_id>>

\* ------------------------------------------------------------------------
\* Strings are sequences of characters; " " stands for any whitespace.
\* ------------------------------------------------------------------------
SP == " "

Rep(c, n) == [i \in 1..n |-> c]

RECURSIVE lstrip(_)
lstrip(s) == IF s # <<>> /\ Head(s) = SP THEN lstrip(Tail(s)) ELSE s

RECURSIVE rstrip(_)
rstrip(s) ==
    IF s # <<>> /\ s[Len(s)] = SP THEN rstrip(SubSeq(s, 1, Len(s) - 1)) ELSE s

\* str.strip()
strip(s) == rstrip(lstrip(s))

\* Inputs: timestamps, languages, students, message texts, titles
Times == 0..MaxTime
Langs == {"fr", "en"}
Students == {"s1", "s2"}
LanguagePairs == {<<"fr", "en">>, <<"en", "en">>, <<"fr", "fr">>}
Contents == {<<>>, <<SP>>, <<SP, "b">>}
max_len == 100
\* titles: empty, blank, one to trim, one of max_len characters once trimmed,
\* one of max_len + 1
Titles ==
    {<<>>, <<SP>>, <<SP, "t", SP>>, <<SP>> \o Rep("x", max_len), Rep("x", max_len + 1)}
\* uuid4() as the callers of add_message use it: an id no message of the
\* conversation carries yet
FreshMsgIds(c) == {Len(c.messages) + 1}

\* ------------------------------------------------------------------------
\* ChatMessage
\* ------------------------------------------------------------------------
\* ChatMessage._validate_content: TRUE when the content is accepted
validate_content(content) == ~(content = <<>> \/ strip(content) = <<>>)

NoMessage == [id |-> 0, role |-> "none", content |-> <<>>, created_at |-> 0]

\* ChatMessage.create_new followed by __post_init__
ChatMessage_create_new(id, role, content, now) ==
    IF validate_content(content)
    THEN [err |-> OK,
          msg |-> [id |-> id, role |-> role, content |-> content, created_at |-> now]]
    ELSE [err |-> InvalidChatMessageContentError, msg |-> NoMessage]

\* ------------------------------------------------------------------------
\* Conversation
\* ------------------------------------------------------------------------
NoConversation == [status |-> "none"]

\* create_new validating the title before the language pair
create_new_TitleFirst(id, student_id, title, native_lang, target_lang, now) ==
    LET cleaned_title == strip(title) IN
    IF cleaned_title = <<>>
    THEN [err |-> EmptyConversationTitleError, conv |-> NoConversation]
    ELSE IF Len(cleaned_title) > max_len
    THEN [err |-> ConversationTitleTooLongError, conv |-> NoConversation]
    ELSE IF native_lang = target_lang
    THEN [err |-> InvalidLanguagePairError, conv |-> NoConversation]
    ELSE [err |-> OK,
          conv |-> [id |-> id,
                    student_id |-> student_id,
                    native_lang |-> native_lang,
                    target_lang |-> target_lang,
                    created_at |-> now,
                    last_activity_at |-> now,
                    title |-> cleaned_title,
                    status |-> ACTIVE,
                    messages |-> <<>>]]

\* Conversation.create_new
create_new(id, student_id, title, native_lang, target_lang, now) ==
    LET cleaned_title == strip(title) IN
    IF native_lang = target_lang
    THEN [err |-> InvalidLanguagePairError, conv |-> NoConversation]
    ELSE IF cleaned_title = <<>>
    THEN [err |-> EmptyConversationTitleError, conv |-> NoConversation]
    ELSE IF Len(cleaned_title) > max_len
    THEN [err |-> ConversationTitleTooLongError, conv |-> NoConversation]
    ELSE [err |-> OK,
          conv |-> [id |-> id,
                    student_id |-> student_id,
                    native_lang |-> native_lang,
                    target_lang |-> target_lang,
                    created_at |-> now,
                    last_activity_at |-> now,
                    title |-> cleaned_title,
                    status |-> ACTIVE,
                    messages |-> <<>>]]

\* touch that only ever moves last_activity_at forward
touch_OnlyForward(c, now) ==
    [c EXCEPT !.last_activity_at = IF now > @ THEN now ELSE @]

\* Conversation.touch
touch(c, now) == [c EXCEPT !.last_activity_at = now]

\* add_message validating the content before it looks at the status
add_message_ContentFirst(c, new_message_id, now, role, content) ==
    LET made == ChatMessage_create_new(new_message_id, role, content, now) IN
    IF made.err # OK
    THEN [err |-> made.err, conv |-> c, ret |-> NoMessage]
    ELSE IF ~is_writable(c.status)
    THEN [err |-> ConversationNotWritableError, conv |-> c, ret |-> NoMessage]
    ELSE [err |-> OK,
          conv |-> [touch(c, now) EXCEPT !.messages = Append(@, made.msg)],
          ret |-> made.msg]

\* add_message inserting the new message at the front of the history
add_message_Prepend(c, new_message_id, now, role, content) ==
    IF ~is_writable(c.status)
    THEN [err |-> ConversationNotWritableError, conv |-> c, ret |-> NoMessage]
    ELSE LET touched == touch(c, now)
             made == ChatMessage_create_new(new_message_id, role, content, now)
         IN IF made.err # OK
            THEN [err |-> made.err, conv |-> touched, ret |-> NoMessage]
            ELSE [err |-> OK,
                  conv |-> [touched EXCEPT !.messages = <<made.msg>> \o @],
                  ret |-> made.msg]

\* Conversation.add_message: writability check, touch, message creation, append
add_message(c, new_message_id, now, role, content) ==
    IF ~is_writable(c.status)
    THEN [err |-> ConversationNotWritableError, conv |-> c, ret |-> NoMessage]
    ELSE LET touched == touch(c, now)
             made == ChatMessage_create_new(new_message_id, role, content, now)
         IN IF made.err # OK
            THEN [err |-> made.err, conv |-> touched, ret |-> NoMessage]
            ELSE [err |-> OK,
                  conv |-> [touched EXCEPT !.messages = Append(@, made.msg)],
                  ret |-> made.msg]

\* archive used as a toggle: archiving an archived conversation reopens it
archive_Toggle(c, now) ==
    touch([c EXCEPT !.status = IF @ = ARCHIVED THEN ACTIVE ELSE ARCHIVED], now)

\* Conversation.archive
archive(c, now) == touch([c EXCEPT !.status = ARCHIVED], now)

\* Conversation.delete
delete(c, now) == touch([c EXCEPT !.status = DELETED], now)

\* modify_title measuring the title before trimming it
modify_title_RawLength(c, new_title, now) ==
    LET cleaned_title == strip(new_title) IN
    IF ~is_writable(c.status)
    THEN [err |-> ConversationNotWritableError, conv |-> c]
    ELSE IF cleaned_title = <<>>
    THEN [err |-> EmptyConversationTitleError, conv |-> c]
    ELSE IF Len(new_title) > max_len
    THEN [err |-> ConversationTitleTooLongError, conv |-> c]
    ELSE [err |-> OK, conv |-> touch([c EXCEPT !.title = cleaned_title], now)]

\* modify_title validating the title before it looks at the status
modify_title_TitleFirst(c, new_title, now) ==
    LET cleaned_title == strip(new_title) IN
    IF cleaned_title = <<>>
    THEN [err |-> EmptyConversationTitleError, conv |-> c]
    ELSE IF Len(cleaned_title) > max_len
    THEN [err |-> ConversationTitleTooLongError, conv |-> c]
    ELSE IF ~is_writable(c.status)
    THEN [err |-> ConversationNotWritableError, conv |-> c]
    ELSE [err |-> OK, conv |-> touch([c EXCEPT !.title = cleaned_title], now)]

\* Conversation.modify_title
modify_title(c, new_title, now) ==
    LET cleaned_title == strip(new_title) IN
    IF ~is_writable(c.status)
    THEN [err |-> ConversationNotWritableError, conv |-> c]
    ELSE IF cleaned_title = <<>>
    THEN [err |-> EmptyConversationTitleError, conv |-> c]
    ELSE IF Len(cleaned_title) > max_len
    THEN [err |-> ConversationTitleTooLongError, conv |-> c]
    ELSE [err |-> OK, conv |-> touch([c EXCEPT !.title = cleaned_title], now)]

\* Conversation.message_count
message_count(c) == Len(c.messages)

\* ------------------------------------------------------------------------
\* State
\* ------------------------------------------------------------------------
VARIABLES
    conv,        \* the Conversation object under SpecConversation
    lastOp,      \* the last call made on it: operation, arguments, outcome
    storage,     \* InMemoryConversationRepository._storage: id -> Conversation
    task,        \* the use-case executions in flight, one per task slot
    clock,       \* what TimeProvider.now() returns
    nextConvId,  \* uuid4() for conversations: the next unused id
    nextMsgId,   \* uuid4() for messages: the next unused id
    started,     \* number of use-case executions started so far
    objects      \* the Conversation objects alive under SpecRepository, by identity

aggVars == <<conv, lastOp, objects>>
ucVars == <<storage, task, clock, nextConvId, nextMsgId, started>>
vars == <<conv, lastOp, storage, task, clock, nextConvId, nextMsgId, started, objects>>

Call(op, now, id, role, content, title, err, ret) ==
    [op |-> op, now |-> now, id |-> id, role |-> role, content |-> content,
     title |-> title, err |-> err, ret |-> ret,
     student_id |-> "none", native_lang |-> "none", target_lang |-> "none"]

NoCall == Call("none", 0, 0, "none", <<>>, <<>>, OK, NoMessage)

\* ------------------------------------------------------------------------
\* Repository (InMemoryConversationRepository over ConversationRepository).
\* Conversations are values here, so the deep copies of save and find_by_id
\* are the plain reading and writing of storage.
\* ------------------------------------------------------------------------
\* InMemoryConversationRepository.find_by_id
find_by_id(st, id) == IF id \notin DOMAIN st THEN NoConversation ELSE st[id]

\* get_by_id creating the conversation it does not find
get_by_id_OrCreate(st, id) ==
    LET c == find_by_id(st, id) IN
    IF c = NoConversation
    THEN [err |-> OK, message |-> <<>>,
          conv |-> create_new(id, "s1", <<"t">>, "fr", "en", 0).conv]
    ELSE [err |-> OK, message |-> <<>>, conv |-> c]

\* ConversationRepository.get_by_id
get_by_id(st, id) ==
    LET c == find_by_id(st, id) IN
    IF c = NoConversation
    THEN [err |-> ResourceNotFoundError,
          message |-> ResourceNotFoundMessage("Conversation", id),
          conv |-> NoConversation]
    ELSE [err |-> OK, message |-> <<>>, conv |-> c]

\* save keeping the stored messages that the saved object does not hold
save_Merge(st, c) ==
    LET ids == {c.messages[k].id : k \in 1..Len(c.messages)}
        kept == IF c.id \in DOMAIN st
                THEN SelectSeq(st[c.id].messages, LAMBDA m : m.id \notin ids)
                ELSE <<>>
        merged == [c EXCEPT !.messages = kept \o @]
    IN [i \in DOMAIN st \cup {c.id} |-> IF i = c.id THEN merged ELSE st[i]]

\* InMemoryConversationRepository.save
save(st, c) ==
    [i \in DOMAIN st \cup {c.id} |-> IF i = c.id THEN c ELSE st[i]]

\* student_conversations.sort(key=created_at, reverse=True) over the ids in S;
\* conversations created at the same time keep the order of their ids
RECURSIVE SortByCreatedAtDesc(_, _)
SortByCreatedAtDesc(st, S) ==
    IF S = {}
    THEN <<>>
    ELSE LET first == CHOOSE i \in S : \A j \in S :
                          \/ st[i].created_at > st[j].created_at
                          \/ st[i].created_at = st[j].created_at /\ i <= j
         IN <<first>> \o SortByCreatedAtDesc(st, S \ {first})

\* InMemoryConversationRepository._to_summary
to_summary(c) ==
    [conversation_id |-> c.id,
     title |-> IF c.title # <<>> THEN c.title
               ELSE <<"C", "o", "n", "v", "e", "r", "s", "a", "t", "i", "o", "n">>,
     created_at |-> c.created_at,
     last_activity_at |-> c.last_activity_at,
     status |-> c.status]

\* get_student_conversations without the filter on the owner
get_student_conversations_AnyOwner(st, student_id, limit, offset, include_archived) ==
    LET allowed_statuses == IF include_archived THEN {ACTIVE, ARCHIVED} ELSE {ACTIVE}
        student_conversations ==
            SortByCreatedAtDesc(st, {i \in DOMAIN st :
                /\ student_id \in Students
                /\ st[i].status \in allowed_statuses})
        last == IF offset + limit < Len(student_conversations)
                THEN offset + limit ELSE Len(student_conversations)
        \* student_conversations[offset : offset + limit]
        paginated_convs == IF offset + 1 > last THEN <<>>
                           ELSE SubSeq(student_conversations, offset + 1, last)
    IN [k \in 1..Len(paginated_convs) |-> to_summary(st[paginated_convs[k]])]

\* get_student_conversations slicing [offset : limit]
get_student_conversations_LimitAsEnd(st, student_id, limit, offset, include_archived) ==
    LET allowed_statuses == IF include_archived THEN {ACTIVE, ARCHIVED} ELSE {ACTIVE}
        student_conversations ==
            SortByCreatedAtDesc(st, {i \in DOMAIN st :
                /\ st[i].student_id = student_id
                /\ st[i].status \in allowed_statuses})
        last == IF limit < Len(student_conversations)
                THEN limit ELSE Len(student_conversations)
        \* student_conversations[offset : limit]
        paginated_convs == IF offset + 1 > last THEN <<>>
                           ELSE SubSeq(student_conversations, offset + 1, last)
    IN [k \in 1..Len(paginated_convs) |-> to_summary(st[paginated_convs[k]])]

\* InMemoryConversationRepository.get_student_conversations
get_student_conversations(st, student_id, limit, offset, include_archived) ==
    LET allowed_statuses == IF include_archived THEN {ACTIVE, ARCHIVED} ELSE {ACTIVE}
        student_conversations ==
            SortByCreatedAtDesc(st, {i \in DOMAIN st :
                /\ st[i].student_id = student_id
                /\ st[i].status \in allowed_statuses})
        last == IF offset + limit < Len(student_conversations)
                THEN offset + limit ELSE Len(student_conversations)
        \* student_conversations[offset : offset + limit]
        paginated_convs == IF offset + 1 > last THEN <<>>
                           ELSE SubSeq(student_conversations, offset + 1, last)
    IN [k \in 1..Len(paginated_convs) |-> to_summary(st[paginated_convs[k]])]

\* ------------------------------------------------------------------------
\* Use-case executions
\* ------------------------------------------------------------------------
Tasks == 1..NumTasks
\* texts a student sends, texts the chat provider returns
StudentTexts == {<<SP>>, <<"s">>}
TeacherTexts == {<<SP>>, <<"t">>}
\* (title, native_lang, target_lang) of CreateConversationCommand: a title to
\* trim, a blank one, one that is too long, and twice the same language
CommandSettings ==
    {<<<<SP, "t", SP>>, "fr", "en">>, <<<<SP>>, "fr", "en">>,
     <<Rep("x", max_len + 1), "fr", "en">>, <<<<SP, "t", SP>>, "en", "en">>}
\* "New Conversation"
NewConversationTitle ==
    <<"N", "e", "w", SP, "C", "o", "n", "v", "e", "r", "s", "a", "t", "i", "o", "n">>
\* conversation ids of commands: the first conversation and another id
CommandConvIds == {1, 2}

Command(conversation_id, student_id, student_message, title, native_lang, target_lang) ==
    [conversation_id |-> conversation_id, student_id |-> student_id,
     student_message |-> student_message, title |-> title,
     native_lang |-> native_lang, target_lang |-> target_lang,
     limit |-> 0, offset |-> 0]

NoCommand == Command(0, "none", <<>>, <<>>, "none", "none")

SendMessageCommand(conversation_id, student_message) ==
    Command(conversation_id, "none", student_message, <<>>, "none", "none")

DeleteConversationCommand(conversation_id, student_id) ==
    Command(conversation_id, student_id, <<>>, <<>>, "none", "none")

CreateConversationCommand(student_id, title, native_lang, target_lang) ==
    Command(0, student_id, <<>>, title, native_lang, target_lang)

SelectConversationQuery(student_id, conversation_id) ==
    Command(conversation_id, student_id, <<>>, <<>>, "none", "none")

ListConversationsQuery(student_id, limit, offset) ==
    [Command(0, student_id, <<>>, <<>>, "none", "none") EXCEPT
        !.limit = limit, !.offset = offset]

\* what execute returned or raised
Result(err, conversation_id, message_id, student_message_id, teacher_message) ==
    [err |-> err, message |-> <<>>,
     conversation_id |-> conversation_id, message_id |-> message_id,
     student_message_id |-> student_message_id, teacher_message |-> teacher_message,
     title |-> <<>>, native_lang |-> "none", target_lang |-> "none",
     status |-> "none", messages |-> <<>>, summaries |-> <<>>]

NoResult == Result("none", 0, 0, 0, <<>>)

Raised(err) == Result(err, 0, 0, 0, <<>>)

\* an error raised with the message its constructor builds
RaisedWith(err, message) == [Raised(err) EXCEPT !.message = message]

\* MessageView(id, role, content, created_at)
MessageView(message) ==
    [id |-> message.id, role |-> message.role, content |-> message.content,
     created_at |-> message.created_at]

\* SelectConversationResult(conversation_id, title, native_lang, target_lang,
\* status, messages)
SelectConversationResult(conversation) ==
    [Result(OK, conversation.id, 0, 0, <<>>) EXCEPT
        !.title = conversation.title,
        !.native_lang = conversation.native_lang,
        !.target_lang = conversation.target_lang,
        !.status = conversation.status,
        !.messages = [k \in 1..Len(conversation.messages) |->
                         MessageView(conversation.messages[k])]]

\* the Sequence[ConversationSummary] that ListStudentConversations returns
ListResult(summaries) == [Result(OK, 0, 0, 0, <<>>) EXCEPT !.summaries = summaries]

\* a call of ChatProvider.get_teacher_response: its arguments and whether it
\* is pending, has returned or has raised
PortCall(history, native_lang, target_lang, outcome) ==
    [history |-> history, native_lang |-> native_lang, target_lang |-> target_lang,
     outcome |-> outcome]

NoPortCall == PortCall(<<>>, "none", "none", "none")

\* the history taken without the message appended last
HistorySnapshot_WithoutLast(conversation) ==
    SubSeq(conversation.messages, 1, Len(conversation.messages) - 1)

\* history = tuple(conversation.messages)
HistorySnapshot(conversation) == conversation.messages

\* One execution: where it is (pc), its command, its local variables
\* (conversation, student_message_id, teacher_message_id, teacher_response),
\* and what it has done so far: the messages it loaded, its calls of the chat
\* provider and of save.
IdleTask ==
    [pc |-> "idle", uc |-> "none", cmd |-> NoCommand,
     conversation |-> NoConversation, student_message_id |-> 0,
     teacher_message_id |-> 0, teacher_response |-> <<>>,
     loaded |-> <<>>, calls |-> 0, port |-> NoPortCall, saves |-> 0,
     result |-> NoResult]

Begin(uc, cmd) == [IdleTask EXCEPT !.uc = uc, !.cmd = cmd]

\* execute returns or raises: the local variables are gone, the record of
\* what the execution did remains
Finished(t, result) ==
    [t EXCEPT !.pc = "done", !.result = result,
              !.conversation = NoConversation, !.teacher_response = <<>>]

\* SendMessageResult(message_id, student_message_id, teacher_message)
SendMessageResult_SwappedIds(t) ==
    Result(OK, t.conversation.id, t.student_message_id, t.teacher_message_id,
           t.teacher_response)

SendMessageResult(t) ==
    Result(OK, t.conversation.id, t.teacher_message_id, t.student_message_id,
           t.teacher_response)

\* pagination windows (limit, offset) of ListConversationsQuery: the defaults,
\* an empty page, pages of one and of two, pages that start at or past the end
ListWindows ==
    {<<20, 0>>, <<0, 0>>, <<1, 0>>, <<1, 1>>, <<2, 0>>, <<2, 1>>, <<2, 2>>, <<1, 3>>}

\* ListStudentConversationsUseCase.execute: include_archived is not passed
ListStudentConversations(st, student_id, limit, offset) ==
    get_student_conversations(st, student_id, limit, offset, FALSE)

\* the conversation ids of a sequence of summaries
SummaryIds(summaries) == {summaries[k].conversation_id : k \in 1..Len(summaries)}

\* A new execution takes the first slot that is free (the slots are anonymous).
CanStart(p) ==
    /\ started < MaxExec
    /\ task[p].pc \in {"idle", "done"}
    /\ \A q \in 1..(p - 1) : task[q].pc \notin {"idle", "done"}

\* What the repository holds when the executions under study begin: nothing,
\* or one conversation left by a CreateConversation and a SendMessage
\* (student "s", teacher "t") at time 0.
StoredExchange ==
    LET created == create_new(1, "s1", <<"t">>, "fr", "en", 0).conv
        asked == add_message(created, 1, 0, STUDENT, <<"s">>).conv
        answered == add_message(asked, 2, 0, TEACHER, <<"t">>).conv
    IN save(<<>>, answered)

InitStorages == {<<>>, StoredExchange}

MessageIds(st) ==
    UNION {{st[i].messages[k].id : k \in 1..Len(st[i].messages)} : i \in DOMAIN st}

InitUseCases ==
    /\ storage \in InitStorages
    /\ task = [p \in Tasks |-> IdleTask]
    /\ clock = 0
    /\ nextConvId = Cardinality(DOMAIN storage) + 1
    /\ nextMsgId = Cardinality(MessageIds(storage)) + 1
    /\ started = 0

InitConversation ==
    /\ conv = NoConversation
    /\ objects = <<>>
    /\ lastOp = NoCall
    /\ storage = <<>>
    /\ task = <<>>
    /\ clock = 0
    /\ nextConvId = 1
    /\ nextMsgId = 1
    /\ started = 0

\* ------------------------------------------------------------------------
\* SpecConversation: the operations of one Conversation
\* ------------------------------------------------------------------------
\* The factory is called once; a failed call leaves no object.
CreateNew ==
    /\ conv = NoConversation
    /\ \E title \in Titles, langs \in LanguagePairs, now \in Times :
          LET r == create_new(1, "s1", title, langs[1], langs[2], now) IN
          /\ conv' = r.conv
          /\ lastOp' = [Call("create_new", now, 1, "none", <<>>, title, r.err,
                              NoMessage)
                            EXCEPT !.student_id = "s1",
                                   !.native_lang = langs[1],
                                   !.target_lang = langs[2]]
    /\ UNCHANGED <<objects, ucVars>>

AddMessage ==
    /\ conv # NoConversation
    /\ message_count(conv) < MaxMsgs
    /\ \E new_message_id \in FreshMsgIds(conv), now \in Times,
          role \in Role, content \in Contents :
          LET r == add_message(conv, new_message_id, now, role, content) IN
          /\ conv' = r.conv
          /\ lastOp' = Call("add_message", now, new_message_id, role, content,
                            <<>>, r.err, r.ret)
    /\ UNCHANGED <<objects, ucVars>>

Touch ==
    /\ conv # NoConversation
    /\ \E now \in Times :
          /\ conv' = touch(conv, now)
          /\ lastOp' = Call("touch", now, 0, "none", <<>>, <<>>, OK, NoMessage)
    /\ UNCHANGED <<objects, ucVars>>

Archive ==
    /\ conv # NoConversation
    /\ \E now \in Times :
          /\ conv' = archive(conv, now)
          /\ lastOp' = Call("archive", now, 0, "none", <<>>, <<>>, OK, NoMessage)
    /\ UNCHANGED <<objects, ucVars>>

Delete ==
    /\ conv # NoConversation
    /\ \E now \in Times :
          /\ conv' = delete(conv, now)
          /\ lastOp' = Call("delete", now, 0, "none", <<>>, <<>>, OK, NoMessage)
    /\ UNCHANGED <<objects, ucVars>>

ModifyTitle ==
    /\ conv # NoConversation
    /\ \E new_title \in Titles, now \in Times :
          LET r == modify_title(conv, new_title, now) IN
          /\ conv' = r.conv
          /\ lastOp' = Call("modify_title", now, 0, "none", <<>>, new_title,
                            r.err, NoMessage)
    /\ UNCHANGED <<objects, ucVars>>

NextConversation ==
    \/ CreateNew
    \/ AddMessage
    \/ Touch
    \/ Archive
    \/ Delete
    \/ ModifyTitle

SpecConversation == InitConversation /\ [][NextConversation]_vars

\* ------------------------------------------------------------------------
\* Spec: use cases. One action per stretch of execute between two awaits;
\* the awaited repository operation takes effect in the action that resumes.
\* ------------------------------------------------------------------------
\* TimeProvider.now() moves forward
Tick ==
    /\ clock < MaxTime
    /\ clock' = clock + 1
    /\ UNCHANGED <<aggVars, storage, task, nextConvId, nextMsgId, started>>

\* CreateConversationUseCase.execute up to the call of save
CreateExec(p) ==
    /\ CanStart(p)
    /\ \E student_id \in Students, setting \in CommandSettings :
          LET cmd == CreateConversationCommand(student_id, setting[1], setting[2],
                                               setting[3])
              t == Begin("create", cmd)
              conversation_id == nextConvId
              now == clock
              conversation_title ==
                  IF cmd.title # <<>> /\ strip(cmd.title) # <<>>
                  THEN cmd.title ELSE NewConversationTitle
              r == create_new(conversation_id, cmd.student_id, conversation_title,
                              cmd.native_lang, cmd.target_lang, now)
          IN task' = [task EXCEPT ![p] =
                 IF r.err # OK
                 THEN Finished(t, Raised(r.err))
                 ELSE [t EXCEPT !.pc = "create_saving",
                                !.conversation = r.conv, !.saves = 1]]
    /\ nextConvId' = nextConvId + 1
    /\ UNCHANGED <<aggVars, storage, clock, nextMsgId>>
    /\ started' = started + 1

\* save returns; CreateConversationUseCase.execute returns the new id
CreateSaved(p) ==
    /\ task[p].pc = "create_saving"
    /\ storage' = save(storage, task[p].conversation)
    /\ task' = [task EXCEPT ![p] =
           Finished(@, Result(OK, task[p].conversation.id, 0, 0, <<>>))]
    /\ UNCHANGED <<aggVars, clock, nextConvId, nextMsgId, started>>

\* SendLoad saving the conversation as soon as the student message is appended
SendLoad_SavesStudent(p) ==
    /\ CanStart(p)
    /\ \E conversation_id \in CommandConvIds, student_message \in StudentTexts :
          LET cmd == SendMessageCommand(conversation_id, student_message)
              t == Begin("send", cmd)
              g == get_by_id(storage, cmd.conversation_id)
          IN IF g.err # OK
             THEN /\ task' = [task EXCEPT ![p] =
                             Finished(t, RaisedWith(g.err, g.message))]
                  /\ UNCHANGED <<nextMsgId, storage>>
             ELSE /\ LET student_message_id == nextMsgId
                         now_student == clock
                         a == add_message(g.conv, student_message_id, now_student,
                                          STUDENT, cmd.student_message)
                         history == HistorySnapshot(a.conv)
                         loaded == [t EXCEPT !.loaded = g.conv.messages]
                     IN /\ task' = [task EXCEPT ![p] =
                            IF a.err # OK
                            THEN Finished(loaded, Raised(a.err))
                            ELSE [loaded EXCEPT
                                    !.pc = "send_generating",
                                    !.conversation = a.conv,
                                    !.student_message_id = student_message_id,
                                    !.calls = 1,
                                    !.saves = 1,
                                    !.port = PortCall(history, a.conv.native_lang,
                                                      a.conv.target_lang, "pending")]]
                        /\ storage' = IF a.err # OK THEN storage
                                                    ELSE save(storage, a.conv)
                  /\ nextMsgId' = nextMsgId + 1
    /\ UNCHANGED <<aggVars, clock, nextConvId>>
    /\ started' = started + 1

\* SendMessageUseCase.execute: get_by_id returns or raises, the student
\* message is appended, the chat provider is called
SendLoad(p) ==
    /\ CanStart(p)
    /\ \E conversation_id \in CommandConvIds, student_message \in StudentTexts :
          LET cmd == SendMessageCommand(conversation_id, student_message)
              t == Begin("send", cmd)
              g == get_by_id(storage, cmd.conversation_id)
          IN IF g.err # OK
             THEN /\ task' = [task EXCEPT ![p] =
                             Finished(t, RaisedWith(g.err, g.message))]
                  /\ UNCHANGED nextMsgId
             ELSE /\ LET student_message_id == nextMsgId
                         now_student == clock
                         a == add_message(g.conv, student_message_id, now_student,
                                          STUDENT, cmd.student_message)
                         history == HistorySnapshot(a.conv)
                         loaded == [t EXCEPT !.loaded = g.conv.messages]
                     IN task' = [task EXCEPT ![p] =
                            IF a.err # OK
                            THEN Finished(loaded, Raised(a.err))
                            ELSE [loaded EXCEPT
                                    !.pc = "send_generating",
                                    !.conversation = a.conv,
                                    !.student_message_id = student_message_id,
                                    !.calls = 1,
                                    !.port = PortCall(history, a.conv.native_lang,
                                                      a.conv.target_lang, "pending")]]
                  /\ nextMsgId' = nextMsgId + 1
    /\ UNCHANGED <<aggVars, storage, clock, nextConvId>>
    /\ started' = started + 1

\* SendGenerated appending the reply with the role of the student
SendGenerated_AsStudent(p) ==
    /\ task[p].pc = "send_generating"
    /\ \E teacher_response \in TeacherTexts :
          LET teacher_message_id == nextMsgId
              now_teacher == clock
              a == add_message(task[p].conversation, teacher_message_id, now_teacher,
                               STUDENT, teacher_response)
              returned == [task[p] EXCEPT !.port.outcome = "returned",
                                          !.teacher_message_id = teacher_message_id]
          IN task' = [task EXCEPT ![p] =
                 IF a.err # OK
                 THEN Finished(returned, Raised(a.err))
                 ELSE [returned EXCEPT
                                !.pc = "send_saving",
                                !.conversation = a.conv,
                                !.teacher_response = teacher_response,
                                !.saves = @ + 1]]
    /\ nextMsgId' = nextMsgId + 1
    /\ UNCHANGED <<aggVars, storage, clock, nextConvId, started>>

\* get_teacher_response returns a text; the teacher message is appended and
\* save is called
SendGenerated(p) ==
    /\ task[p].pc = "send_generating"
    /\ \E teacher_response \in TeacherTexts :
          LET teacher_message_id == nextMsgId
              now_teacher == clock
              a == add_message(task[p].conversation, teacher_message_id, now_teacher,
                               TEACHER, teacher_response)
              returned == [task[p] EXCEPT !.port.outcome = "returned",
                                          !.teacher_message_id = teacher_message_id]
          IN task' = [task EXCEPT ![p] =
                 IF a.err # OK
                 THEN Finished(returned, Raised(a.err))
                 ELSE [returned EXCEPT
                                !.pc = "send_saving",
                                !.conversation = a.conv,
                                !.teacher_response = teacher_response,
                                !.saves = @ + 1]]
    /\ nextMsgId' = nextMsgId + 1
    /\ UNCHANGED <<aggVars, storage, clock, nextConvId, started>>

\* the failure of get_teacher_response handled by saving what there is
SendGenerationFailed_SavesStudent(p) ==
    /\ task[p].pc = "send_generating"
    /\ task' = [task EXCEPT ![p] =
           Finished([@ EXCEPT !.port.outcome = "raised"], Raised(TeacherResponseError))]
    /\ storage' = save(storage, task[p].conversation)
    /\ UNCHANGED <<aggVars, clock, nextConvId, nextMsgId, started>>

\* get_teacher_response raises; execute lets the error through
SendGenerationFailed(p) ==
    /\ task[p].pc = "send_generating"
    /\ task' = [task EXCEPT ![p] =
           Finished([@ EXCEPT !.port.outcome = "raised"], Raised(TeacherResponseError))]
    /\ UNCHANGED <<aggVars, storage, clock, nextConvId, nextMsgId, started>>

\* save returns; SendMessageUseCase.execute returns its result
SendSaved(p) ==
    /\ task[p].pc = "send_saving"
    /\ storage' = save(storage, task[p].conversation)
    /\ task' = [task EXCEPT ![p] = Finished(@, SendMessageResult(task[p]))]
    /\ UNCHANGED <<aggVars, clock, nextConvId, nextMsgId, started>>

\* DeleteLoad telling the requester that the conversation belongs to another
\* student
DeleteLoad_NamesOwner(p) ==
    /\ CanStart(p)
    /\ \E conversation_id \in CommandConvIds, student_id \in Students :
          LET cmd == DeleteConversationCommand(conversation_id, student_id)
              t == Begin("delete", cmd)
              g == get_by_id(storage, cmd.conversation_id)
          IN task' = [task EXCEPT ![p] =
                 IF g.err # OK
                 THEN Finished(t, RaisedWith(g.err, g.message))
                 ELSE IF g.conv.student_id # cmd.student_id
                 THEN Finished(t, RaisedWith(ResourceNotFoundError,
                          ResourceNotFoundMessage(g.conv.student_id, cmd.conversation_id)))
                 ELSE [t EXCEPT !.pc = "delete_saving",
                                !.conversation = delete(g.conv, clock),
                                !.loaded = g.conv.messages,
                                !.saves = 1]]
    /\ UNCHANGED <<aggVars, storage, clock, nextConvId, nextMsgId>>
    /\ started' = started + 1

\* DeleteConversationUseCase.execute up to the call of save
DeleteLoad(p) ==
    /\ CanStart(p)
    /\ \E conversation_id \in CommandConvIds, student_id \in Students :
          LET cmd == DeleteConversationCommand(conversation_id, student_id)
              t == Begin("delete", cmd)
              g == get_by_id(storage, cmd.conversation_id)
          IN task' = [task EXCEPT ![p] =
                 IF g.err # OK
                 THEN Finished(t, RaisedWith(g.err, g.message))
                 ELSE IF g.conv.student_id # cmd.student_id
                 THEN Finished(t, RaisedWith(ResourceNotFoundError,
                          ResourceNotFoundMessage("Conversation", cmd.conversation_id)))
                 ELSE [t EXCEPT !.pc = "delete_saving",
                                !.conversation = delete(g.conv, clock),
                                !.loaded = g.conv.messages,
                                !.saves = 1]]
    /\ UNCHANGED <<aggVars, storage, clock, nextConvId, nextMsgId>>
    /\ started' = started + 1

\* DeleteSaved removing the record (repository.remove) instead of saving it
DeleteSaved_Removes(p) ==
    /\ task[p].pc = "delete_saving"
    /\ storage' = [i \in DOMAIN storage \ {task[p].conversation.id} |-> storage[i]]
    /\ task' = [task EXCEPT ![p] =
           Finished(@, Result(OK, task[p].conversation.id, 0, 0, <<>>))]
    /\ UNCHANGED <<aggVars, clock, nextConvId, nextMsgId, started>>

\* save returns; DeleteConversationUseCase.execute returns
DeleteSaved(p) ==
    /\ task[p].pc = "delete_saving"
    /\ storage' = save(storage, task[p].conversation)
    /\ task' = [task EXCEPT ![p] =
           Finished(@, Result(OK, task[p].conversation.id, 0, 0, <<>>))]
    /\ UNCHANGED <<aggVars, clock, nextConvId, nextMsgId, started>>

\* SelectConversationUseCase.execute: get_by_id returns or raises, the view is
\* built and returned
SelectExec(p) ==
    /\ CanStart(p)
    /\ \E conversation_id \in CommandConvIds, student_id \in Students :
          LET query == SelectConversationQuery(student_id, conversation_id)
              t == Begin("select", query)
              g == get_by_id(storage, query.conversation_id)
          IN task' = [task EXCEPT ![p] =
                 IF g.err # OK
                 THEN Finished(t, RaisedWith(g.err, g.message))
                 ELSE Finished([t EXCEPT !.loaded = g.conv.messages],
                               SelectConversationResult(g.conv))]
    /\ UNCHANGED <<aggVars, storage, clock, nextConvId, nextMsgId>>
    /\ started' = started + 1

\* save raises PersistenceError: nothing is stored, execute lets the error through
SaveFailed(p) ==
    /\ task[p].pc \in {"create_saving", "send_saving", "delete_saving"}
    /\ task' = [task EXCEPT ![p] = Finished(@, Raised(PersistenceError))]
    /\ UNCHANGED <<aggVars, storage, clock, nextConvId, nextMsgId, started>>

Next ==
    \/ Tick
    \/ \E p \in Tasks : CreateExec(p)
    \/ \E p \in Tasks : CreateSaved(p)
    \/ \E p \in Tasks : SendLoad(p)
    \/ \E p \in Tasks : SendGenerated(p)
    \/ \E p \in Tasks : SendGenerationFailed(p)
    \/ \E p \in Tasks : SendSaved(p)
    \/ \E p \in Tasks : DeleteLoad(p)
    \/ \E p \in Tasks : DeleteSaved(p)
    \/ \E p \in Tasks : SelectExec(p)
    \/ \E p \in Tasks : SaveFailed(p)

Init ==
    /\ conv = NoConversation
    /\ objects = <<>>
    /\ lastOp = NoCall
    /\ InitUseCases

Spec == Init /\ [][Next]_vars

\* ------------------------------------------------------------------------
\* SpecList: ListStudentConversations executions over a repository that was
\* filled beforehand and is only read.
\* ------------------------------------------------------------------------
\* a conversation of the given owner, created at created_at, then archived or
\* deleted when the status says so
StoredConversation(id, student_id, status, created_at) ==
    LET created == create_new(id, student_id, <<"t">>, "fr", "en", created_at).conv
    IN IF status = ARCHIVED THEN archive(created, created_at)
       ELSE IF status = DELETED THEN delete(created, created_at)
       ELSE created

\* the repository after saving one conversation per entry of entries, in order
RECURSIVE SaveAll(_, _)
SaveAll(st, entries) ==
    IF entries = <<>>
    THEN st
    ELSE LET e == Head(entries)
             id == Cardinality(DOMAIN st) + 1
         IN SaveAll(save(st, StoredConversation(id, e[1], e[2], e[3])), Tail(entries))

\* repositories to list from: (owner, status, created_at) per conversation
ListStorages ==
    {SaveAll(<<>>, entries) : entries \in
        {<<>>,
         <<<<"s1", ACTIVE, 0>>, <<"s1", ACTIVE, 1>>, <<"s1", ACTIVE, 1>>>>,
         <<<<"s1", ACTIVE, 0>>, <<"s2", ACTIVE, 0>>, <<"s1", ARCHIVED, 1>>>>,
         <<<<"s1", DELETED, 0>>, <<"s2", ACTIVE, 1>>, <<"s2", ACTIVE, 0>>>>,
         <<<<"s1", ARCHIVED, 0>>, <<"s1", DELETED, 1>>, <<"s1", ACTIVE, 1>>>>,
         <<<<"s2", ACTIVE, 1>>, <<"s1", ACTIVE, 0>>, <<"s1", ACTIVE, 1>>,
           <<"s1", DELETED, 0>>>>}}

InitList ==
    /\ conv = NoConversation
    /\ objects = <<>>
    /\ lastOp = NoCall
    /\ storage \in ListStorages
    /\ task = [p \in Tasks |-> IdleTask]
    /\ clock = 0
    /\ nextConvId = Cardinality(DOMAIN storage) + 1
    /\ nextMsgId = 1
    /\ started = 0

\* ListStudentConversationsUseCase.execute: one awaited call of the reader
ListExec(p) ==
    /\ CanStart(p)
    /\ \E student_id \in Students, w \in ListWindows :
          LET query == ListConversationsQuery(student_id, w[1], w[2])
              t == Begin("list", query)
          IN task' = [task EXCEPT ![p] =
                 Finished(t, ListResult(ListStudentConversations(
                     storage, query.student_id, query.limit, query.offset)))]
    /\ UNCHANGED <<aggVars, storage, clock, nextConvId, nextMsgId>>
    /\ started' = started + 1

NextList == \E p \in Tasks : ListExec(p)

SpecList == InitList /\ [][NextList]_vars

\* ------------------------------------------------------------------------
\* Properties of the aggregate (SpecConversation)
\* ------------------------------------------------------------------------

\* C1: on an ARCHIVED or DELETED conversation every add_message call, whatever
\* its role and content (empty content included), fails with
\* ConversationNotWritableError and leaves the message list as it was.
C1_AddMessageRejectedWhenNotWritable ==
    [][(conv.status \in {ARCHIVED, DELETED} /\ lastOp'.op = "add_message")
         => /\ lastOp'.err = ConversationNotWritableError
            /\ lastOp'.ret = NoMessage
            /\ conv'.messages = conv.messages]_vars

\* an add_message with empty content has just been refused on an archived
\* conversation
C1_Witness ==
    /\ conv.status = ARCHIVED
    /\ lastOp.op = "add_message"
    /\ lastOp.content = <<>>
    /\ lastOp.err = ConversationNotWritableError

\* C2: once the status is ARCHIVED or DELETED no operation of the aggregate
\* makes it ACTIVE again: is_writable stays false.
C2_NonWritableAbsorbing ==
    [][(conv.status \in {ARCHIVED, DELETED}) => ~is_writable(conv'.status)]_vars

\* an operation was applied to a conversation deleted earlier
C2_Witness ==
    /\ conv.status = DELETED
    /\ lastOp.op \in {"add_message", "modify_title", "touch"}

\* C3 (as claimed): ARCHIVED stays ARCHIVED and DELETED stays DELETED under
\* every later operation, archive and delete included.
C3_TerminalStatusesClaimed ==
    [][/\ (conv.status = ARCHIVED => conv'.status = ARCHIVED)
       /\ (conv.status = DELETED => conv'.status = DELETED)]_vars

\* C4: a successful add_message adds exactly one message, at the end, built
\* from the id, role, content and now of the call, keeps the earlier messages
\* in place and returns the new message.
C4_AddMessageAppends ==
    [][(lastOp'.op = "add_message" /\ lastOp'.err = OK)
         => LET new == [id |-> lastOp'.id, role |-> lastOp'.role,
                        content |-> lastOp'.content, created_at |-> lastOp'.now]
            IN /\ is_writable(conv.status)
               /\ message_count(conv') = message_count(conv) + 1
               /\ SubSeq(conv'.messages, 1, message_count(conv)) = conv.messages
               /\ conv'.messages[message_count(conv')] = new
               /\ lastOp'.ret = new]_vars

\* a second message has been appended after a first one
C4_Witness ==
    /\ conv.status = ACTIVE
    /\ lastOp.op = "add_message"
    /\ lastOp.err = OK
    /\ message_count(conv) = 2
    /\ conv.messages[1] # conv.messages[2]

\* ------------------------------------------------------------------------
\* Properties of SendMessage (Spec)
\* ------------------------------------------------------------------------
\* C5: when the save of a SendMessage returns (the conversation was loaded
\* ACTIVE with n messages, the student text S and the generated text T were
\* accepted), the stored conversation holds the n loaded messages followed by
\* a STUDENT message with content S and a TEACHER message with content T, and
\* the result carries the ids of these two messages and T.
C5_SendMessageSuccess ==
    [][\A p \in Tasks :
        (/\ task[p].pc = "send_saving"
         /\ task'[p].pc = "done"
         /\ task'[p].result.err # PersistenceError)
        => LET t == task'[p]
               cid == t.cmd.conversation_id
               n == Len(t.loaded)
               S == t.cmd.student_message
               T == task[p].teacher_response
               msgs == storage'[cid].messages
           IN /\ t.result.err = OK
              /\ validate_content(S) /\ validate_content(T)
              /\ cid \in DOMAIN storage'
              /\ storage'[cid].status = ACTIVE
              /\ Len(msgs) = n + 2
              /\ SubSeq(msgs, 1, n) = t.loaded
              /\ msgs[n + 1].role = STUDENT /\ msgs[n + 1].content = S
              /\ msgs[n + 2].role = TEACHER /\ msgs[n + 2].content = T
              /\ msgs[n + 1].id # msgs[n + 2].id
              /\ t.result.student_message_id = msgs[n + 1].id
              /\ t.result.message_id = msgs[n + 2].id
              /\ t.result.teacher_message = T]_vars

\* a SendMessage on a conversation of two messages has succeeded: four stored
C5_Witness ==
    \E p \in Tasks :
        /\ task[p].pc = "done" /\ task[p].uc = "send" /\ task[p].result.err = OK
        /\ Len(task[p].loaded) = 2
        /\ Len(storage[task[p].cmd.conversation_id].messages) = 4

\* C6: a SendMessage calls the chat provider at most once, and exactly once
\* when it succeeds; the call is made when the student message is appended
\* and the teacher message is not; its history is the loaded messages
\* followed by the new student message, its languages are the conversation's.
C6_PortCalledOnceWithHistory ==
    \A p \in Tasks :
        task[p].uc = "send" =>
            LET t == task[p]
                h == t.port.history
                n == Len(t.loaded)
            IN /\ t.calls <= 1
               /\ (t.pc = "done" /\ t.result.err = OK) => t.calls = 1
               /\ t.pc = "send_generating" =>
                      /\ t.calls = 1
                      /\ t.conversation.messages = h
               /\ t.pc = "send_saving" =>
                      /\ t.calls = 1
                      /\ Len(t.conversation.messages) = Len(h) + 1
                      /\ SubSeq(t.conversation.messages, 1, Len(h)) = h
                      /\ t.conversation.messages[Len(h) + 1].role = TEACHER
               /\ t.calls = 1 =>
                      /\ Len(h) = n + 1
                      /\ SubSeq(h, 1, n) = t.loaded
                      /\ h[n + 1].id = t.student_message_id
                      /\ h[n + 1].role = STUDENT
                      /\ h[n + 1].content = t.cmd.student_message
                      /\ t.port.native_lang = storage[t.cmd.conversation_id].native_lang
                      /\ t.port.target_lang = storage[t.cmd.conversation_id].target_lang

\* a successful SendMessage whose call carried three messages of history
C6_Witness ==
    \E p \in Tasks :
        /\ task[p].pc = "done" /\ task[p].uc = "send" /\ task[p].result.err = OK
        /\ task[p].calls = 1
        /\ Len(task[p].port.history) = 3

\* C7: when the chat provider raises, execute raises that error at once: the
\* provider was called once, no teacher message id is drawn, save is not
\* called, and the repository is as before, without the student message.
C7_GenerationFailurePropagates ==
    [][\A p \in Tasks :
        (task[p].port.outcome = "pending" /\ task'[p].port.outcome = "raised")
        => /\ task'[p].pc = "done"
           /\ task'[p].result.err = TeacherResponseError
           /\ task'[p].calls = 1
           /\ task'[p].saves = 0
           /\ task'[p].teacher_message_id = 0
           /\ nextMsgId' = nextMsgId
           /\ storage' = storage
           /\ task'[p].student_message_id \notin MessageIds(storage')]_vars

\* the chat provider has failed for a conversation that holds messages
C7_Witness ==
    \E p \in Tasks :
        /\ task[p].pc = "done" /\ task[p].port.outcome = "raised"
        /\ task[p].result.err = TeacherResponseError
        /\ Len(task[p].loaded) = 2
        /\ storage[task[p].cmd.conversation_id].messages = task[p].loaded

\* C8: a SendMessage calls save at most once, after the chat provider has
\* returned and with the loaded messages plus the student and the teacher
\* message in the conversation; when the teacher append or the save fails the
\* repository is as before and holds neither new message.
C8_SingleSaveAfterBothAppends ==
    [][\A p \in Tasks :
        task'[p].uc = "send" =>
            LET t == task'[p]
                n == Len(t.loaded)
            IN /\ t.saves <= 1
               /\ t.saves = 1 =>
                      /\ t.port.outcome = "returned"
                      /\ t.student_message_id # 0 /\ t.teacher_message_id # 0
               /\ t.pc = "send_saving" =>
                      /\ t.saves = 1
                      /\ Len(t.conversation.messages) = n + 2
                      /\ t.conversation.messages[n + 1].id = t.student_message_id
                      /\ t.conversation.messages[n + 2].id = t.teacher_message_id
               /\ (/\ task[p].pc \in {"send_generating", "send_saving"}
                   /\ t.pc = "done" /\ t.result.err # OK) =>
                      /\ storage' = storage
                      /\ t.student_message_id \notin MessageIds(storage')
                      /\ t.teacher_message_id \notin MessageIds(storage')
               /\ (storage' # storage /\ task[p].pc = "send_saving" /\ t.pc = "done") =>
                      /\ task[p].saves = 1
                      /\ storage' = save(storage, task[p].conversation)]_vars

\* the chat provider returned a blank text: the teacher append was refused
\* and the stored conversation is what was loaded
C8_Witness ==
    \E p \in Tasks :
        /\ task[p].pc = "done" /\ task[p].uc = "send"
        /\ task[p].port.outcome = "returned"
        /\ task[p].result.err = InvalidChatMessageContentError
        /\ task[p].saves = 0
        /\ storage[task[p].cmd.conversation_id].messages = task[p].loaded

\* C9: a SendMessage for an id that is not stored raises
\* ResourceNotFoundError without calling the chat provider or save, and
\* leaves the repository as it was.
C9_SendToMissingConversation ==
    [][\A p \in Tasks :
        (/\ started' = started + 1
         /\ task'[p] # task[p]
         /\ task'[p].uc = "send"
         /\ task'[p].cmd.conversation_id \notin DOMAIN storage)
        => /\ task'[p].pc = "done"
           /\ task'[p].result.err = ResourceNotFoundError
           /\ task'[p].calls = 0
           /\ task'[p].saves = 0
           /\ task'[p].student_message_id = 0
           /\ nextMsgId' = nextMsgId
           /\ storage' = storage]_vars

\* a SendMessage for an unknown id was refused while another conversation is
\* stored
C9_Witness ==
    \E p \in Tasks :
        /\ task[p].pc = "done" /\ task[p].uc = "send"
        /\ task[p].result.err = ResourceNotFoundError
        /\ task[p].cmd.conversation_id \notin DOMAIN storage
        /\ DOMAIN storage # {}

\* C10: when a SendMessage succeeds after another successful SendMessage that
\* had loaded the same conversation with the same messages, the stored
\* conversation holds the loaded messages plus the pair of the later save only:
\* the pair of the earlier one is overwritten and both executions returned
\* normally.
C10_LastWriteWins ==
    [][\A p, q \in Tasks :
        (/\ p # q
         /\ task[q].pc = "send_saving"
         /\ task'[q].pc = "done" /\ task'[q].result.err = OK
         /\ task[p].pc = "done" /\ task[p].uc = "send" /\ task[p].result.err = OK
         /\ task[p].cmd.conversation_id = task[q].cmd.conversation_id
         /\ task[p].loaded = task[q].loaded)
        => LET msgs == storage'[task[q].cmd.conversation_id].messages
               n == Len(task[q].loaded)
           IN /\ task'[p].result.err = OK
              /\ Len(msgs) = n + 2
              /\ msgs[n + 1].id = task[q].student_message_id
              /\ msgs[n + 2].id = task[q].teacher_message_id
              /\ task[p].student_message_id \notin MessageIds(storage')
              /\ task[p].teacher_message_id \notin MessageIds(storage')]_vars

\* two SendMessage executions on the same conversation have both succeeded
\* and the stored conversation holds one pair of messages only
C10_Witness ==
    \E p, q \in Tasks :
        /\ p # q
        /\ task[p].pc = "done" /\ task[p].uc = "send" /\ task[p].result.err = OK
        /\ task[q].pc = "done" /\ task[q].uc = "send" /\ task[q].result.err = OK
        /\ task[p].cmd.conversation_id = task[q].cmd.conversation_id
        /\ task[p].loaded = task[q].loaded
        /\ Len(storage[task[q].cmd.conversation_id].messages) = Len(task[q].loaded) + 2
        /\ task[p].student_message_id \notin MessageIds(storage)

\* ------------------------------------------------------------------------
\* Properties of the use cases running concurrently (Spec)
\* ------------------------------------------------------------------------
\* C11 (as claimed): when the chat provider returns to a SendMessage whose
\* conversation has meanwhile been stored with a non-writable status, the
\* teacher append fails with ConversationNotWritableError and the execution
\* does not call save.
C11_TeacherAppendRefusedClaimed ==
    [][\A p \in Tasks :
        (/\ task[p].pc = "send_generating"
         /\ task'[p].port.outcome = "returned"
         /\ task[p].cmd.conversation_id \in DOMAIN storage
         /\ ~is_writable(storage[task[p].cmd.conversation_id].status))
        => /\ task'[p].pc = "done"
           /\ task'[p].result.err = ConversationNotWritableError
           /\ task'[p].saves = 0]_vars

\* C12: a DeleteConversation whose student_id is not the owner of the stored
\* conversation raises exactly what it raises for an id that is not stored
\* (ResourceNotFoundError with the same message), does not call save and
\* leaves the repository, status and last_activity_at included, as it was.
C12_DeleteByNonOwnerLooksMissing ==
    [][\A p \in Tasks :
        (/\ started' = started + 1
         /\ task'[p] # task[p]
         /\ task'[p].uc = "delete"
         /\ task'[p].cmd.conversation_id \in DOMAIN storage
         /\ storage[task'[p].cmd.conversation_id].student_id # task'[p].cmd.student_id)
        => LET missing == get_by_id(<<>>, task'[p].cmd.conversation_id)
           IN /\ task'[p].pc = "done"
              /\ missing.err = ResourceNotFoundError
              /\ task'[p].result = RaisedWith(missing.err, missing.message)
              /\ task'[p].saves = 0
              /\ storage' = storage]_vars

\* student s2 was refused the deletion of the stored conversation of s1
C12_Witness ==
    \E p \in Tasks :
        /\ task[p].pc = "done" /\ task[p].uc = "delete"
        /\ task[p].result.err = ResourceNotFoundError
        /\ task[p].cmd.conversation_id \in DOMAIN storage
        /\ storage[task[p].cmd.conversation_id].student_id # task[p].cmd.student_id
        /\ storage[task[p].cmd.conversation_id].status = ACTIVE

C14_SelectByNonOwnerRefusedClaimed ==
    [][\A p \in Tasks :
        (/\ started' = started + 1
         /\ task'[p] # task[p]
         /\ task'[p].uc = "select"
         /\ task'[p].cmd.conversation_id \in DOMAIN storage
         /\ storage[task'[p].cmd.conversation_id].student_id # task'[p].cmd.student_id)
        => /\ task'[p].pc = "done"
           /\ task'[p].result.err = ResourceNotFoundError
           /\ task'[p].result.messages = <<>>]_vars

\* C15 (as claimed): a SelectConversation on a conversation stored with status
\* DELETED raises ResourceNotFoundError and returns neither its title nor its
\* messages, whoever asks.
C15_SelectDeletedRefusedClaimed ==
    [][\A p \in Tasks :
        (/\ started' = started + 1
         /\ task'[p] # task[p]
         /\ task'[p].uc = "select"
         /\ task'[p].cmd.conversation_id \in DOMAIN storage
         /\ storage[task'[p].cmd.conversation_id].status = DELETED)
        => /\ task'[p].pc = "done"
           /\ task'[p].result.err = ResourceNotFoundError
           /\ task'[p].result.title = <<>>
           /\ task'[p].result.messages = <<>>]_vars

\* ------------------------------------------------------------------------
\* Timestamps and titles of the aggregate (SpecConversation)
\* ------------------------------------------------------------------------
MutatingOps == {"add_message", "archive", "delete", "modify_title", "touch"}

\* C16: every successful add_message, archive, delete, modify_title and touch
\* leaves last_activity_at equal to the now it was called with, whatever the
\* value before, and leaves created_at as it was.
C16_LastActivityIsNow ==
    [][(lastOp'.op \in MutatingOps /\ lastOp'.err = OK)
         => /\ conv'.last_activity_at = lastOp'.now
            /\ conv'.created_at = conv.created_at]_vars

\* a modify_title succeeded with a now earlier than the creation time
C16_Witness ==
    /\ conv # NoConversation
    /\ lastOp.op = "modify_title" /\ lastOp.err = OK
    /\ lastOp.now = 0
    /\ conv.last_activity_at = 0
    /\ conv.created_at = 1

\* C17 (as claimed): whatever now the caller passes, last_activity_at never
\* decreases and is never earlier than created_at.
C17_LastActivityMonotoneClaimed ==
    [][(conv # NoConversation /\ conv' # NoConversation)
         => /\ conv'.last_activity_at >= conv.last_activity_at
            /\ conv'.last_activity_at >= conv'.created_at]_vars

\* C18: create_new raises InvalidLanguagePairError whenever native_lang equals
\* target_lang (whatever the title), EmptyConversationTitleError when the
\* trimmed title is empty and ConversationTitleTooLongError when it is longer
\* than 100 characters; otherwise it returns an ACTIVE conversation without
\* messages, with the id and student_id given, the languages given, the
\* trimmed title and created_at = last_activity_at = now.
C18_CreateNewContract ==
    [][lastOp'.op = "create_new"
         => LET a == lastOp'
                cleaned_title == strip(a.title)
            IN /\ a.native_lang = a.target_lang
                    => a.err = InvalidLanguagePairError
               /\ (a.native_lang # a.target_lang /\ cleaned_title = <<>>)
                    => a.err = EmptyConversationTitleError
               /\ (a.native_lang # a.target_lang /\ Len(cleaned_title) > 100)
                    => a.err = ConversationTitleTooLongError
               /\ a.err # OK => conv' = NoConversation
               /\ (/\ a.native_lang # a.target_lang
                   /\ cleaned_title # <<>>
                   /\ Len(cleaned_title) <= 100)
                    => /\ a.err = OK
                       /\ conv'.status = ACTIVE
                       /\ conv'.messages = <<>>
                       /\ conv'.id = a.id
                       /\ conv'.student_id = a.student_id
                       /\ conv'.native_lang = a.native_lang
                       /\ conv'.target_lang = a.target_lang
                       /\ conv'.title = cleaned_title
                       /\ conv'.created_at = a.now
                       /\ conv'.last_activity_at = a.now]_vars

\* create_new was called with twice the same language and a blank title: the
\* language pair is what it complains about
C18_Witness ==
    /\ conv = NoConversation
    /\ lastOp.op = "create_new"
    /\ lastOp.native_lang = "fr" /\ lastOp.target_lang = "fr"
    /\ strip(lastOp.title) = <<>>
    /\ lastOp.err = InvalidLanguagePairError

\* C19: the title of a Conversation is at every moment non-empty, without
\* leading or trailing whitespace and at most 100 characters long; create_new
\* and modify_title accept a title of exactly 100 characters once trimmed and
\* store it trimmed, and reject one of 101 with ConversationTitleTooLongError.
C19_TitleInvariant ==
    [][/\ conv' # NoConversation
          => /\ conv'.title # <<>>
             /\ Head(conv'.title) # SP
             /\ conv'.title[Len(conv'.title)] # SP
             /\ Len(conv'.title) <= 100
       /\ (/\ lastOp'.op \in {"create_new", "modify_title"}
           /\ lastOp'.op = "create_new" => lastOp'.native_lang # lastOp'.target_lang
           /\ lastOp'.op = "modify_title" => conv.status = ACTIVE)
          => LET cleaned_title == strip(lastOp'.title)
             IN /\ Len(cleaned_title) = 100
                   => /\ lastOp'.err = OK
                      /\ conv'.title = cleaned_title
                /\ Len(cleaned_title) = 101
                   => /\ lastOp'.err = ConversationTitleTooLongError
                      /\ conv' = conv]_vars

\* modify_title was given 100 characters after a space and stored the 100
C19_Witness ==
    /\ conv # NoConversation
    /\ lastOp.op = "modify_title" /\ lastOp.err = OK
    /\ Len(lastOp.title) = 101
    /\ Len(conv.title) = 100

\* C20: a failing modify_title leaves the conversation, title and
\* last_activity_at included, as it was; on an ARCHIVED or DELETED
\* conversation it fails with ConversationNotWritableError for every title,
\* valid or not; on an ACTIVE one it fails exactly when the trimmed title is
\* empty (EmptyConversationTitleError) or longer than 100 characters
\* (ConversationTitleTooLongError).
C20_ModifyTitleFailures ==
    [][lastOp'.op = "modify_title"
         => LET cleaned_title == strip(lastOp'.title)
            IN /\ lastOp'.err # OK
                    => /\ conv'.title = conv.title
                       /\ conv'.last_activity_at = conv.last_activity_at
                       /\ conv' = conv
               /\ conv.status \in {ARCHIVED, DELETED}
                    => lastOp'.err = ConversationNotWritableError
               /\ conv.status = ACTIVE
                    => /\ lastOp'.err \in {OK, EmptyConversationTitleError,
                                           ConversationTitleTooLongError}
                       /\ lastOp'.err = EmptyConversationTitleError
                              <=> cleaned_title = <<>>
                       /\ lastOp'.err = ConversationTitleTooLongError
                              <=> Len(cleaned_title) > 100]_vars

\* a blank title was refused on an archived conversation as not writable, with
\* a now different from the last activity
C20_Witness ==
    /\ conv # NoConversation
    /\ conv.status = ARCHIVED
    /\ lastOp.op = "modify_title"
    /\ strip(lastOp.title) = <<>>
    /\ lastOp.err = ConversationNotWritableError
    /\ lastOp.now # conv.last_activity_at

\* ------------------------------------------------------------------------
\* Properties of ListStudentConversations (SpecList)
\* ------------------------------------------------------------------------
\* C21: every summary that ListStudentConversations returns is the summary
\* of a stored conversation of the queried student whose status is neither
\* DELETED nor ARCHIVED, and no conversation is returned twice; a student who
\* owns no stored conversation gets the empty sequence.
C21_ListOnlyOwnActive ==
    \A p \in Tasks :
        (task[p].pc = "done" /\ task[p].uc = "list") =>
            LET student_id == task[p].cmd.student_id
                summaries == task[p].result.summaries
            IN /\ task[p].result.err = OK
               /\ \A k \in 1..Len(summaries) :
                      LET id == summaries[k].conversation_id
                      IN /\ id \in DOMAIN storage
                         /\ storage[id].id = id
                         /\ storage[id].student_id = student_id
                         /\ storage[id].status \notin {DELETED, ARCHIVED}
                         /\ summaries[k].status = storage[id].status
                         /\ summaries[k].title = storage[id].title
                         /\ summaries[k].created_at = storage[id].created_at
                         /\ summaries[k].last_activity_at = storage[id].last_activity_at
               /\ Cardinality(SummaryIds(summaries)) = Len(summaries)
               /\ (\A i \in DOMAIN storage : storage[i].student_id # student_id)
                      => summaries = <<>>

\* a student who owns an active, an archived and a deleted conversation was
\* given the active one only
C21_Witness ==
    \E p \in Tasks :
        /\ task[p].pc = "done" /\ task[p].uc = "list"
        /\ Len(task[p].result.summaries) = 1
        /\ \E i, j \in DOMAIN storage :
              /\ storage[i].student_id = task[p].cmd.student_id
              /\ storage[j].student_id = task[p].cmd.student_id
              /\ storage[i].status = ARCHIVED
              /\ storage[j].status = DELETED

\* C22: a request (limit L, offset O) of a student who owns N stored ACTIVE
\* conversations returns max(0, min(L, N - O)) summaries; when it follows a
\* request of the same student with a window that does not overlap [O, O + L)
\* and the repository is the same, the two results share no conversation id.
C22_ListPagination ==
    [][\A p \in Tasks :
        (/\ started' = started + 1
         /\ task'[p] # task[p]
         /\ task'[p].uc = "list")
        => LET q == task'[p].cmd
               N == Cardinality({i \in DOMAIN storage :
                        /\ storage[i].student_id = q.student_id
                        /\ storage[i].status = ACTIVE})
               rest == IF N - q.offset < q.limit THEN N - q.offset ELSE q.limit
               before == task[p]
           IN /\ Len(task'[p].result.summaries) = IF rest < 0 THEN 0 ELSE rest
              /\ (/\ before.pc = "done" /\ before.uc = "list"
                  /\ before.cmd.student_id = q.student_id
                  /\ storage' = storage
                  /\ \/ before.cmd.offset + before.cmd.limit <= q.offset
                     \/ q.offset + q.limit <= before.cmd.offset)
                 => SummaryIds(before.result.summaries)
                        \cap SummaryIds(task'[p].result.summaries) = {}]_vars

\* a second request asked for two summaries from the third on and was given
\* one: the student owns three active conversations
C22_Witness ==
    \E p \in Tasks :
        /\ task[p].pc = "done" /\ task[p].uc = "list"
        /\ task[p].cmd.limit = 2 /\ task[p].cmd.offset = 2
        /\ Len(task[p].result.summaries) = 1
        /\ started = 2

\* ------------------------------------------------------------------------
\* C23: CreateConversation propagates the validation failures of the entity:
\* an execution whose command Conversation.create_new rejects (same native
\* and target language, title blank once trimmed, trimmed title longer than
\* max_len) ends with that validation error and never calls save.
\* ------------------------------------------------------------------------
\* the error create_new gives for the settings of a command
CommandRejection(cmd) ==
    create_new(0, cmd.student_id, cmd.title, cmd.native_lang, cmd.target_lang, 0).err

C23_CreatePropagatesClaimed ==
    \A p \in DOMAIN task :
        (/\ task[p].uc = "create"
         /\ task[p].pc # "idle"
         /\ CommandRejection(task[p].cmd) # OK)
        => /\ task[p].pc = "done"
           /\ task[p].result.err = CommandRejection(task[p].cmd)
           /\ task[p].saves = 0

\* ------------------------------------------------------------------------
\* CEFRLevel (value object) and SpecCEFR: its operations applied to a pair
\* of levels
\* ------------------------------------------------------------------------
\* tuple(cls): the members in definition order
ordered_members == <<"A1", "A2", "B1", "B2", "C1", "C2">>

CEFRLevel == {ordered_members[i] : i \in DOMAIN ordered_members}

\* tuple.index: the zero-based position of the first occurrence
index(members, x) ==
    (CHOOSE i \in DOMAIN members :
        members[i] = x /\ \A j \in 1..(i - 1) : members[j] # x) - 1

abs(n) == IF n < 0 THEN 0 - n ELSE n

rank(level) == index(ordered_members, level) + 1

\* is_adjacent_to accepting a distance of at most one
is_adjacent_to_Within(level, other) == abs(rank(level) - rank(other)) <= 1

is_adjacent_to(level, other) == abs(rank(level) - rank(other)) = 1

\* __lt__ between two levels
lt(level, other) == rank(level) < rank(other)

\* a call on `level` with argument `other`: what it returned (ret for the
\* boolean operations, number for rank)
LevelCall(op, level, other, ret, number) ==
    [op |-> op, level |-> level, other |-> other, ret |-> ret, number |-> number]

InitCEFR ==
    /\ conv = NoConversation
    /\ objects = <<>>
    /\ \E level \in CEFRLevel, other \in CEFRLevel :
          lastOp = LevelCall("none", level, other, FALSE, 0)
    /\ storage = <<>>
    /\ task = <<>>
    /\ clock = 0
    /\ nextConvId = 1
    /\ nextMsgId = 1
    /\ started = 0

IsAdjacentTo ==
    /\ lastOp' = LevelCall("is_adjacent_to", lastOp.level, lastOp.other,
                           is_adjacent_to(lastOp.level, lastOp.other), 0)
    /\ UNCHANGED <<conv, objects, ucVars>>

LessThan ==
    /\ lastOp' = LevelCall("lt", lastOp.level, lastOp.other,
                           lt(lastOp.level, lastOp.other), 0)
    /\ UNCHANGED <<conv, objects, ucVars>>

Rank ==
    /\ lastOp' = LevelCall("rank", lastOp.level, lastOp.other, FALSE,
                           rank(lastOp.level))
    /\ UNCHANGED <<conv, objects, ucVars>>

NextCEFR ==
    \/ IsAdjacentTo
    \/ LessThan
    \/ Rank

SpecCEFR == InitCEFR /\ [][NextCEFR]_vars

\* ------------------------------------------------------------------------
\* Properties of CEFRLevel (SpecCEFR)
\* ------------------------------------------------------------------------
\* the ranks the levels are said to have
LevelRanks ==
    [l \in CEFRLevel |->
        CASE l = "A1" -> 1 [] l = "A2" -> 2 [] l = "B1" -> 3
          [] l = "B2" -> 4 [] l = "C1" -> 5 [] l = "C2" -> 6]

\* C24: for every pair (x, y) of levels A1..C2, of ranks 1..6 in that order,
\* x.is_adjacent_to(y) returns true exactly when the two ranks differ by one;
\* it returns the same for (y, x) and false for (x, x).
C24_AdjacentIffRankDistanceOne ==
    LET x == lastOp.level
        y == lastOp.other
    IN /\ lastOp.op = "rank" => lastOp.number = LevelRanks[x]
       /\ lastOp.op = "is_adjacent_to" =>
             /\ lastOp.ret = (LevelRanks[x] - LevelRanks[y] \in {1, 0 - 1})
             /\ lastOp.ret = is_adjacent_to(y, x)
             /\ (x = y => ~lastOp.ret)

\* B2.is_adjacent_to(B1) was called and returned true
C24_Witness ==
    /\ lastOp.op = "is_adjacent_to"
    /\ lastOp.level = "B2"
    /\ lastOp.other = "B1"
    /\ lastOp.ret

\* ------------------------------------------------------------------------
\* Further properties of the aggregate (SpecConversation)
\* ------------------------------------------------------------------------
\* C25 (as claimed): an add_message that fails, because the conversation is
\* not writable or because the content is empty or blank, leaves messages,
\* status, title and last_activity_at as they were before the call.
C25_FailedAddChangesNothingClaimed ==
    [][(lastOp'.op = "add_message" /\ lastOp'.err # OK)
         => /\ conv'.messages = conv.messages
            /\ conv'.status = conv.status
            /\ conv'.title = conv.title
            /\ conv'.last_activity_at = conv.last_activity_at]_vars

\* ------------------------------------------------------------------------
\* Further properties of the use cases running concurrently (Spec)
\* ------------------------------------------------------------------------
\* messages come in pairs: a STUDENT message, then a TEACHER message
Alternates(messages) ==
    /\ Len(messages) % 2 = 0
    /\ \A k \in 1..Len(messages) :
          messages[k].role = IF k % 2 = 1 THEN STUDENT ELSE TEACHER

\* C26: whatever CreateConversation, SendMessage and DeleteConversation
\* executions have run or are running, succeeded or failed at any step,
\* every stored conversation holds an even number of messages that alternate
\* STUDENT, TEACHER from the first: the odd history a SendMessage holds
\* between its two appends is never stored.
C26_StoredExchangesArePairs ==
    \A i \in DOMAIN storage : Alternates(storage[i].messages)

\* a SendMessage holds an odd history, waiting for the chat provider, while
\* the repository holds that conversation with two messages and a conversation
\* created since with none
C26_Witness ==
    \E p \in Tasks :
        /\ task[p].pc = "send_generating"
        /\ Len(task[p].conversation.messages) = 3
        /\ Len(storage[task[p].cmd.conversation_id].messages) = 2
        /\ \E i \in DOMAIN storage : Len(storage[i].messages) = 0

\* C27 (as claimed): once a DeleteConversation has saved a conversation as
\* DELETED, the stored conversation is DELETED in every later state, whatever
\* other executions do, a SendMessage that loaded it before the delete was
\* saved and saves after it included.
C27_DeletionDurableClaimed ==
    [][\A i \in DOMAIN storage :
        storage[i].status = DELETED
        => /\ i \in DOMAIN storage'
           /\ storage'[i].status = DELETED]_vars

EditContents == {<<SP>>, <<"e">>}

\* ChatMessage.edit_content
edit_content(message, new_content) ==
    IF ~validate_content(new_content)
    THEN [err |-> InvalidChatMessageContentError, msg |-> message]
    ELSE [err |-> OK, msg |-> [message EXCEPT !.content = new_content]]

\* conversation.messages[k - 1].edit_content(new_content): messages returns
\* tuple(self._messages), a new tuple of the ChatMessage objects the
\* conversation holds, so the edit is made on the conversation's own message
EditContent ==
    /\ conv # NoConversation
    /\ \E k \in 1..Len(conv.messages), new_content \in EditContents :
          LET r == edit_content(conv.messages[k], new_content) IN
          /\ conv' = [conv EXCEPT !.messages[k] = r.msg]
          /\ lastOp' = Call("edit_content", 0, conv.messages[k].id,
                            conv.messages[k].role, new_content, <<>>, r.err, r.msg)
    /\ UNCHANGED <<objects, ucVars>>

NextMessages ==
    \/ NextConversation
    \/ EditContent

SpecMessages == InitConversation /\ [][NextMessages]_vars

\* ------------------------------------------------------------------------
\* Properties of the aggregate and its messages (SpecMessages)
\* ------------------------------------------------------------------------
\* archive, delete, touch and modify_title leave the messages as they are,
\* and no operation changes id, student_id, native_lang, target_lang or
\* created_at, so the two languages differ in every state
OperationsFrame ==
    /\ lastOp'.op \in {"archive", "delete", "touch", "modify_title"}
          => conv'.messages = conv.messages
    /\ (conv # NoConversation /\ conv' # NoConversation)
          => /\ conv'.id = conv.id
             /\ conv'.student_id = conv.student_id
             /\ conv'.native_lang = conv.native_lang
             /\ conv'.target_lang = conv.target_lang
             /\ conv'.created_at = conv.created_at
    /\ conv' # NoConversation => conv'.native_lang # conv'.target_lang

\* C29 (as claimed): archive, delete, touch and modify_title never change the
\* messages; no operation changes id, student_id, native_lang, target_lang or
\* created_at, so native_lang differs from target_lang in every state; and
\* nothing a caller does with the tuple that messages returns changes the
\* history the conversation holds.
C29_FrameAndViewClaimed ==
    [][/\ OperationsFrame
       /\ lastOp'.op = "edit_content" => conv'.messages = conv.messages]_vars

\* ------------------------------------------------------------------------
\* SpecRepository: callers that make, change, save, load and remove
\* Conversation objects. Here objects maps the identity of each live object
\* to its value, storage maps an id to the object _storage holds for it, and
\* task maps a caller to the object it holds.
\* ------------------------------------------------------------------------
Callers == {"a", "b"}
RepoConvIds == {1, 2}

\* identities of objects: None, the object a caller holds is named after the
\* caller, the object kept in _storage for an id after the id
None == "none"
StoredRefs == <<"r1", "r2">>

\* the heap with one more object
Put(heap, r, value) ==
    [x \in DOMAIN heap \cup {r} |-> IF x = r THEN value ELSE heap[x]]

\* copy.deepcopy(heap[ref]): a new object r with the same value
deepcopy(heap, ref, r) == [objects |-> Put(heap, r, heap[ref]), ref |-> r]

\* objects that neither the repository nor a caller refers to are gone
Collect(heap, st, held) ==
    LET live == {st[i] : i \in DOMAIN st} \cup {held[c] : c \in DOMAIN held}
    IN [x \in DOMAIN heap \cap live |-> heap[x]]

\* save keeping the caller's object itself
save_object_SameObject(heap, st, ref) ==
    [objects |-> heap,
     storage |-> [i \in DOMAIN st \cup {heap[ref].id} |->
                     IF i = heap[ref].id THEN ref ELSE st[i]]]

\* self._storage[conversation.id] = copy.deepcopy(conversation)
save_object(heap, st, ref) ==
    LET copied == deepcopy(heap, ref, StoredRefs[heap[ref].id]) IN
    [objects |-> copied.objects,
     storage |-> [i \in DOMAIN st \cup {heap[ref].id} |->
                     IF i = heap[ref].id THEN copied.ref ELSE st[i]]]

\* find_by_id: None, or copy.deepcopy(self._storage[id]), a new object r
find_object_by_id(heap, st, id, r) ==
    IF id \notin DOMAIN st
    THEN [objects |-> heap, ref |-> None]
    ELSE deepcopy(heap, st[id], r)

\* remove: raises when the id is not stored, else del self._storage[id]
remove(st, id) ==
    IF id \notin DOMAIN st
    THEN [err |-> ResourceNotFoundError, storage |-> st]
    ELSE [err |-> OK, storage |-> [i \in DOMAIN st \ {id} |-> st[i]]]

\* what a caller can do to the object it holds: append a message, delete
Mutations(c) ==
    {delete(c, 0)} \cup
    (IF message_count(c) < MaxMsgs
     THEN {add_message(c, message_count(c) + 1, 0, STUDENT, <<"s">>).conv}
     ELSE {})

RepoCall(op, caller, id, err) == [op |-> op, caller |-> caller, id |-> id, err |-> err]

InitRepository ==
    /\ conv = NoConversation
    /\ lastOp = RepoCall("none", None, 0, OK)
    /\ objects = <<>>
    /\ storage = <<>>
    /\ task = [c \in Callers |-> None]
    /\ clock = 0
    /\ nextConvId = 1
    /\ nextMsgId = 1
    /\ started = 0

\* a caller builds a conversation
Make(c) ==
    /\ \E id \in RepoConvIds :
          LET made == create_new(id, "s1", <<"t">>, "fr", "en", 0).conv
              held == [task EXCEPT ![c] = c]
          IN /\ task' = held
             /\ objects' = Collect(Put(objects, c, made), storage, held)
             /\ lastOp' = RepoCall("make", c, id, OK)
    /\ UNCHANGED <<conv, storage, clock, nextConvId, nextMsgId, started>>

\* a caller changes the object it holds
Mutate(c) ==
    /\ task[c] # None
    /\ \E changed \in Mutations(objects[task[c]]) :
          /\ objects' = [objects EXCEPT ![task[c]] = changed]
          /\ lastOp' = RepoCall("mutate", c, changed.id, OK)
    /\ UNCHANGED <<conv, storage, task, clock, nextConvId, nextMsgId, started>>

\* repository.save(conversation)
Save(c) ==
    /\ task[c] # None
    /\ LET saved == save_object(objects, storage, task[c])
       IN /\ storage' = saved.storage
          /\ objects' = Collect(saved.objects, saved.storage, task)
          /\ lastOp' = RepoCall("save", c, objects[task[c]].id, OK)
    /\ UNCHANGED <<conv, task, clock, nextConvId, nextMsgId, started>>

\* conversation = repository.find_by_id(id)
FindById(c) ==
    /\ \E id \in RepoConvIds :
          LET found == find_object_by_id(objects, storage, id, c)
              held == [task EXCEPT ![c] = found.ref]
          IN /\ task' = held
             /\ objects' = Collect(found.objects, storage, held)
             /\ lastOp' = RepoCall("find_by_id", c, id, OK)
    /\ UNCHANGED <<conv, storage, clock, nextConvId, nextMsgId, started>>

\* repository.remove(id)
Remove(c) ==
    /\ \E id \in RepoConvIds :
          LET removed == remove(storage, id)
          IN /\ storage' = removed.storage
             /\ objects' = Collect(objects, removed.storage, task)
             /\ lastOp' = RepoCall("remove", c, id, removed.err)
    /\ UNCHANGED <<conv, task, clock, nextConvId, nextMsgId, started>>

NextRepository ==
    \/ \E c \in Callers : Make(c)
    \/ \E c \in Callers : Mutate(c)
    \/ \E c \in Callers : Save(c)
    \/ \E c \in Callers : FindById(c)
    \/ \E c \in Callers : Remove(c)

SpecRepository == InitRepository /\ [][NextRepository]_vars

\* ------------------------------------------------------------------------
\* Properties of the repository (SpecRepository)
\* ------------------------------------------------------------------------
\* the value stored for an id, the value of the object a caller holds
Stored(st, heap, id) == IF id \in DOMAIN st THEN heap[st[id]] ELSE NoConversation
Held(held, heap, c) == IF held[c] = None THEN NoConversation ELSE heap[held[c]]

\* C30: the repository stores and returns copies. What is stored for an id
\* changes only by a save of a conversation of that id or a remove of that
\* id: not when a caller changes an object after saving it or an object that
\* find_by_id returned. What a caller holds changes only by what that caller
\* does. save stores the value of the caller's object in another object, and
\* find_by_id returns the stored value in another object.
C30_RepositoryIsolation ==
    [][/\ \A id \in RepoConvIds :
             Stored(storage', objects', id) # Stored(storage, objects, id)
             => lastOp'.op \in {"save", "remove"} /\ lastOp'.id = id
       /\ \A c \in Callers :
             Held(task', objects', c) # Held(task, objects, c)
             => /\ lastOp'.caller = c
                /\ lastOp'.op \in {"make", "mutate", "find_by_id"}
       /\ lastOp'.op = "save"
             => /\ Stored(storage', objects', lastOp'.id)
                      = Held(task, objects, lastOp'.caller)
                /\ \A c \in Callers : storage'[lastOp'.id] # task'[c]
       /\ lastOp'.op = "find_by_id"
             => /\ Held(task', objects', lastOp'.caller)
                      = Stored(storage, objects, lastOp'.id)
                /\ \A i \in DOMAIN storage' : storage'[i] # task'[lastOp'.caller]]_vars

\* caller a saved conversation 1 and then appended a message to its object,
\* caller b loaded conversation 1 and deleted what it got: the repository
\* still holds the conversation ACTIVE and without message
C30_Witness ==
    /\ lastOp.op = "mutate"
    /\ task["a"] # None /\ task["b"] # None
    /\ 1 \in DOMAIN storage
    /\ Held(task, objects, "a").id = 1
    /\ Held(task, objects, "b").id = 1
    /\ Len(Held(task, objects, "a").messages) = 1
    /\ Held(task, objects, "b").status = DELETED
    /\ Stored(storage, objects, 1).status = ACTIVE
    /\ Stored(storage, objects, 1).messages = <<>>

====
